---- MODULE Spec2Model ----
(***************************************************************************)
(* The authorization and credential subsystem of compliance-mait-api:      *)
(* the credential store (Users, UserCredentials, RolePermissions), the     *)
(* token issuer, and the request handlers of src/apis/auth-api.js,         *)
(* src/services/UserService.js and src/middleware/auth.js.                 *)
(*                                                                         *)
(* Every HTTP request is an asynchronous task: it runs from one `await`   *)
(* to the next without interruption, and other requests run in between.   *)
(* A request is a process p \in Procs; each action below is the code of   *)
(* one handler between two store round-trips.                              *)
(***************************************************************************)
EXTENDS Integers, FiniteSets, Sequences, TLC

\* ------------------------------------------------------------- bounds
NumProcs == 2
MaxRequests == 4
MaxStoreRequests == 3
MaxGuardRequests == 3
MaxLoginRequests == 3
MaxOwnerRequests == 4
MaxInviteRequests == 3
MaxSelfRegisterRequests == 3
MaxRolePutRequests == 3
MaxCreateInviteRequests == 4
MaxCertificateRequests == 3
MaxTime == 1

Procs == 1..NumProcs

\* ------------------------------------------------------------- inputs
Emails == {"e1", "e2"}
LoginNames == {"a", "b"}
Passwords == {"password1", "password2"}
RegisterPasswords == {"password1"}
\* the passwords of change-password: the two, and one of fewer than 8 characters
NewPasswords == Passwords \cup {"short"}
Providers == {"google"}
Subjects == {"s1"}

RoleIds == {1, 2}

\* A column that holds SQL NULL (JS null/undefined).
Null == "null"

\* JS falsiness of a string-or-null value: !v
Falsy(v) == v \in {Null, ""}

VARIABLES
    users,      \* table Users: committed rows
    creds,      \* table UserCredentials: committed rows
    userSeq,    \* serial of Users.ID
    credSeq,    \* serial of UserCredentials.ID
    tokens,     \* the signed tokens handed to clients so far
    now,        \* the clock, in token-lifetime units
    rolePerms,  \* table RolePermissions: rolePerms[r] is the set of codes of role r
    jwtExpiresIn, \* config.jwt.expiresIn, in clock units
    invites,    \* table Invites: committed rows
    certificates, \* table Certificates: committed rows
    req,        \* req[p]: the request process p is serving, with its locals
    nreq        \* requests the clients may still send

vars == <<users, creds, userSeq, credSeq, tokens, now, rolePerms, jwtExpiresIn, invites,
          certificates, req, nreq>>

\* what the credential handlers never write
env == <<now, rolePerms, jwtExpiresIn, invites, certificates>>

\* ------------------------------------------------------------- tokens
\* the default of config.jwt.expiresIn ('1h') and the expiresIn of the reset
\* token ('1h'), in clock units
ExpiresIn == 1
ResetExpiresIn == 1

NoToken == [claims |-> {}, userId |-> 0, roleId |-> 0, exp |-> 0, signed |-> FALSE]

\* auth-api.js generateToken(user, credential): used by login and the OpenID flow
generateToken(user, credential, t) ==
    [claims |-> {"userId", "email", "loginName", "authType", "roleId", "avatarId"},
     userId |-> user.id, roleId |-> user.roleId, exp |-> t + jwtExpiresIn, signed |-> TRUE]

\* UserService.generateToken(user, credential): used by registerUser
serviceGenerateToken(user, credential, t) ==
    [claims |-> {"userId", "roleId", "credentialId"},
     userId |-> user.id, roleId |-> user.roleId, exp |-> t + jwtExpiresIn, signed |-> TRUE]

\* the token reset-password-request signs
resetToken(user, t) ==
    [claims |-> {"userId", "email"},
     userId |-> user.id, roleId |-> 0, exp |-> t + ResetExpiresIn, signed |-> TRUE]

\* jwt.verify(token, secret): the signature was made with the secret and the
\* expiry is in the future (jsonwebtoken: now >= exp is TokenExpiredError)
jwtVerify(token, t) == token.signed /\ t < token.exp

\* ------------------------------------------------------------- passwords
\* bcrypt.hash(password, salt): never empty, decided by the password
hashPassword(password) == "$2a$10$" \o password

\* a comparison that accepts every password
bcryptCompareAny(password, hash) == TRUE

\* bcrypt.compare(password, hash)
bcryptCompare(password, hash) == hash = hashPassword(password)

\* ------------------------------------------------------------- the store
\* UserCredential hooks.beforeValidate: TRUE when the row passes
beforeValidate(credential) ==
    IF credential.authType = "password"
    THEN ~(Falsy(credential.passwordHash) \/ ~Falsy(credential.openIdProvider))
    ELSE IF credential.authType = "openid"
    THEN ~(Falsy(credential.openIdProvider) \/ ~Falsy(credential.passwordHash))
    ELSE TRUE

\* unique index (LoginName, AuthType)
SameLogin(c, d) == c.loginName = d.loginName /\ c.authType = d.authType

\* unique index (OpenIDProvider, OpenIDSubject) where both are not null
SameOpenId(c, d) ==
    /\ c.openIdProvider # Null /\ c.openIdSubject # Null
    /\ c.openIdProvider = d.openIdProvider /\ c.openIdSubject = d.openIdSubject

CredentialConflict(c, d) == SameLogin(c, d) \/ SameOpenId(c, d)

\* what a query inside p's transaction sees: the committed rows and its own
VisibleUsers(p) == users \cup req[p].txUsers
VisibleCreds(p) == creds \cup req[p].txCreds

\* an insert waits while another open transaction holds an uncommitted row
\* with the same unique key
UserInsertBlocked(p, email) ==
    \E q \in Procs \ {p} : \E u \in req[q].txUsers : u.email = email

CredInsertBlocked(p, row) ==
    \E q \in Procs \ {p} : \E c \in req[q].txCreds : CredentialConflict(row, c)

ActiveCredentials(userId) ==
    {c \in creds : c.userId = userId /\ c.isActive /\ ~c.isDeleted}

\* ------------------------------------------------------------- requests
\* req.userRecord before the Auth Guard sets it
NoRecord == [id |-> 0, roleId |-> 0, role |-> [id |-> 0, permissions |-> {}]]

IdleReq ==
    [op |-> "none", pc |-> "idle", token |-> NoToken,
     email |-> Null, loginName |-> Null, password |-> Null, newPassword |-> Null,
     provider |-> Null, subject |-> Null, roleId |-> 0,
     credId |-> 0,       \* req.params.id
     user |-> 0,         \* id of the user row the handler holds, 0: none
     cred |-> 0,         \* id of the credential row the handler holds, 0: none
     count |-> 0,        \* credentialCount
     tx |-> "none",      \* the handler's transaction: none, open, commit, rollback
     txUsers |-> {}, txCreds |-> {},   \* its uncommitted inserts
     status |-> 0,       \* the HTTP status answered, 0: none yet
     err |-> Null,       \* the message of the error the handler caught
     message |-> Null,   \* the message of the response body of login
     guid |-> Null, dob |-> Null,   \* req.body.guid and req.body.dob
     invite |-> 0,       \* id of the invite row the handler holds, 0: none
     certificate |-> 0,  \* req.params.id of the certificates router
     title |-> Null,     \* req.body.title
     found |-> {},       \* the rows a certificates handler found or answered
     dup |-> FALSE,      \* at arrival the loginName had a password credential
     newUser |-> 0,      \* id of the user row this request inserted, 0: none
     endpoint |-> "none",
     role |-> 0, code |-> Null,     \* req.params.id and the code of req.body.permissions
     userRecord |-> NoRecord,       \* req.userRecord
     permissions |-> {},            \* req.permissions
     queries |-> 0,      \* store queries the Auth Guard has made
     authorized |-> FALSE,          \* the Auth Guard called next()
     handled |-> FALSE,  \* the route handler ran
     gone |-> FALSE,     \* at arrival the token's user was inactive or deleted
     conc |-> {},        \* the requests of the other slots that ran during this one
     alone |-> TRUE]     \* no other request was in flight during this one

InFlight(p) == req[p].pc \notin {"idle", "done"}

\* a new request is served by the first free slot
CanStart(p) ==
    /\ ~InFlight(p)
    /\ \A q \in Procs : q < p => InFlight(q)
    /\ nreq > 0

Arrive(p, r) ==
    /\ req' = [q \in Procs |->
                 IF q = p
                 THEN [r EXCEPT !.conc = {o \in Procs \ {p} : InFlight(o)},
                                !.alone = \A o \in Procs \ {p} : ~InFlight(o)]
                 ELSE IF InFlight(q)
                 THEN [req[q] EXCEPT !.conc = @ \cup {p}, !.alone = FALSE]
                 ELSE [req[q] EXCEPT !.conc = @ \ {p}]]
    /\ nreq' = nreq - 1

Respond(p, status) == [req[p] EXCEPT !.pc = "done", !.status = status,
                                     !.txUsers = {}, !.txCreds = {}]

\* ------------------------------------------------------------- register
ErrLoginInUse == "Login name already in use"
ErrUnique == "Validation error"
ErrValidation == "Password auth type requires password hash and no OpenID provider"
ErrRollbackFinished ==
    "Transaction cannot be rolled back because it has been finished with state: rollback"

\* transaction.rollback() of the catch block of registerUser: it rejects when
\* the transaction is already finished, and that error replaces the caught one
registerUserCatch(tx, err) == IF tx = "open" THEN err ELSE ErrRollbackFinished

\* the messages of the errors acceptInvite throws
ErrInvalidInvite == "Invalid or expired invite"
ErrUserExists == "User with this email already exists"
ErrInvalidDate == "Invalid date"

\* router.post('/accept') catch: 400 for the two messages of acceptInvite, else 500
acceptErrorStatus(message) ==
    IF message \in {ErrInvalidInvite, ErrUserExists} THEN 400 ELSE 500

\* router.post('/register') catch: err.message.includes('already in use') ? 409 : 500
registerErrorStatus(message) == IF message = ErrLoginInUse THEN 409 ELSE 500

\* registerUser throws: to the catch of the register route, or to the catch
\* block of acceptInvite (a rollback of its open transaction) and the route of it
RegisterFail(p, tx, err) ==
    LET message == registerUserCatch(tx, err)
        status == IF req[p].op = "accept" THEN acceptErrorStatus(message)
                  ELSE registerErrorStatus(message)
    IN [Respond(p, status) EXCEPT !.tx = "rollback", !.err = message]

\* POST /register: the body check, then registerUser opens its transaction
StartRegister(p, email, password, loginName, roleId) ==
    /\ CanStart(p)
    /\ LET r == [IdleReq EXCEPT !.op = "register", !.email = email,
                                !.password = password, !.loginName = loginName,
                                !.roleId = roleId,
                                !.dup = \E c \in creds :
                                          c.loginName = loginName /\ c.authType = "password"]
       IN IF Falsy(email) \/ Falsy(password) \/ Falsy(loginName)
          THEN Arrive(p, [r EXCEPT !.pc = "done", !.status = 400])
          ELSE Arrive(p, [r EXCEPT !.pc = "reg_findUser", !.tx = "open"])
    /\ UNCHANGED <<users, creds, userSeq, credSeq, tokens, env>>

\* User.findOne({ where: { email }, transaction })
RegFindUser(p) ==
    /\ req[p].pc = "reg_findUser"
    /\ LET found == {u \in VisibleUsers(p) : u.email = req[p].email} IN
       IF found = {}
       THEN req' = [req EXCEPT ![p].pc = "reg_createUser"]
       ELSE \E u \in found : req' = [req EXCEPT ![p].user = u.id, ![p].pc = "reg_findCred"]
    /\ UNCHANGED <<users, creds, userSeq, credSeq, tokens, env, nreq>>

\* User.create without { transaction }: the row is written at once
RegCreateUserNoTransaction(p) ==
    /\ req[p].pc = "reg_createUser"
    /\ LET row == [id |-> userSeq + 1, email |-> req[p].email,
                   roleId |-> IF req[p].roleId = 0 THEN 1 ELSE req[p].roleId,
                   isActive |-> TRUE, isDeleted |-> FALSE]
       IN /\ users' = users \cup {row}
          /\ req' = [req EXCEPT ![p].user = row.id, ![p].newUser = row.id,
                                ![p].pc = "reg_findCred"]
          /\ userSeq' = userSeq + 1
    /\ UNCHANGED <<creds, credSeq, tokens, env, nreq>>

\* User.create({ email, ..., roleId: roleId || 1, isActive: true, isDeleted: false })
RegCreateUser(p) ==
    /\ req[p].pc = "reg_createUser"
    /\ ~UserInsertBlocked(p, req[p].email)
    /\ IF \E u \in VisibleUsers(p) : u.email = req[p].email
       THEN /\ req' = [req EXCEPT ![p] = RegisterFail(p, req[p].tx, ErrUnique)]
            /\ UNCHANGED userSeq
       ELSE LET row == [id |-> userSeq + 1, email |-> req[p].email,
                        roleId |-> IF req[p].roleId = 0 THEN 1 ELSE req[p].roleId,
                        isActive |-> TRUE, isDeleted |-> FALSE]
            IN /\ req' = [req EXCEPT ![p].txUsers = @ \cup {row}, ![p].user = row.id,
                                     ![p].newUser = row.id,
                                     ![p].pc = "reg_findCred"]
               /\ userSeq' = userSeq + 1
    /\ UNCHANGED <<users, creds, credSeq, tokens, env, nreq>>

\* UserCredential.findOne({ where: { loginName, authType: 'password' }, transaction });
\* when it finds one: rollback, throw 'Login name already in use', and the catch
\* block rolls back again
RegFindCredential(p) ==
    /\ req[p].pc = "reg_findCred"
    /\ IF \E c \in VisibleCreds(p) : c.loginName = req[p].loginName /\ c.authType = "password"
       THEN req' = [req EXCEPT ![p] = RegisterFail(p, "rollback", ErrLoginInUse)]
       ELSE req' = [req EXCEPT ![p].pc = "reg_createCred"]
    /\ UNCHANGED <<users, creds, userSeq, credSeq, tokens, env, nreq>>

\* the row registerUser inserts
registerCredentialRow(id, userId, loginName, password) ==
    [id |-> id, userId |-> userId, authType |-> "password", loginName |-> loginName,
     passwordHash |-> hashPassword(password), openIdProvider |-> Null,
     openIdSubject |-> Null, passwordExpired |-> FALSE, lastPasswordChange |-> now,
     isActive |-> TRUE, isDeleted |-> FALSE]

\* hashPassword, then UserCredential.create({...}, { transaction })
RegCreateCredential(p) ==
    /\ req[p].pc = "reg_createCred"
    /\ LET row == registerCredentialRow(credSeq + 1, req[p].user, req[p].loginName,
                                        req[p].password)
       IN /\ ~CredInsertBlocked(p, row)
          /\ IF ~beforeValidate(row)
             THEN /\ req' = [req EXCEPT ![p] = RegisterFail(p, req[p].tx, ErrValidation)]
                  /\ UNCHANGED credSeq
             ELSE IF \E c \in VisibleCreds(p) : CredentialConflict(row, c)
             THEN /\ req' = [req EXCEPT ![p] = RegisterFail(p, req[p].tx, ErrUnique)]
                  /\ credSeq' = credSeq + 1
             ELSE /\ req' = [req EXCEPT ![p].txCreds = @ \cup {row}, ![p].cred = row.id,
                                        ![p].pc = "reg_commit"]
                  /\ credSeq' = credSeq + 1
    /\ UNCHANGED <<users, creds, userSeq, tokens, env, nreq>>

\* transaction.commit(), generateToken, and the 201 of the route; called by
\* acceptInvite, it returns to it, and the route of it drops the token
RegCommit(p) ==
    /\ req[p].pc = "reg_commit"
    /\ users' = users \cup req[p].txUsers
    /\ creds' = creds \cup req[p].txCreds
    /\ LET user == CHOOSE u \in VisibleUsers(p) : u.id = req[p].user
           cred == CHOOSE c \in VisibleCreds(p) : c.id = req[p].cred
       IN IF req[p].op = "accept"
          THEN /\ tokens' = tokens
               /\ req' = [req EXCEPT ![p].tx = "commit", ![p].txUsers = {},
                                      ![p].txCreds = {}, ![p].pc = "inv_profile"]
          ELSE /\ tokens' = tokens \cup {serviceGenerateToken(user, cred, now)}
               /\ req' = [req EXCEPT ![p] = [Respond(p, 201) EXCEPT !.tx = "commit"]]
    /\ UNCHANGED <<userSeq, credSeq, env, nreq>>

\* ------------------------------------------------------------- authenticateToken
\* auth-api.js authenticateToken: 0 when the request goes on to the handler
authenticateToken(token, t) ==
    IF token = NoToken THEN 401
    ELSE IF ~jwtVerify(token, t) THEN 403
    ELSE 0

\* ------------------------------------------------------------- credential.update
\* a bulk UPDATE in place of instance.update: no hook runs, and the hash is
\* written from a variable that was never set
UpdateCredentialBulk(p, row) ==
    /\ creds' = {IF c.id = row.id THEN [row EXCEPT !.passwordHash = Null] ELSE c : c \in creds}
    /\ req' = [req EXCEPT ![p] = Respond(p, 200)]

\* instance.update validates (hooks.beforeValidate) and then writes the row;
\* the three handlers that call it answer 200, or 500 from their catch block
UpdateCredential(p, row) ==
    IF beforeValidate(row)
    THEN /\ creds' = {IF c.id = row.id THEN row ELSE c : c \in creds}
         /\ req' = [req EXCEPT ![p] = Respond(p, 200)]
    ELSE /\ creds' = creds
         /\ req' = [req EXCEPT ![p] = [Respond(p, 500) EXCEPT !.err = ErrValidation]]

\* ------------------------------------------------------------- DELETE /credentials/:id
StartDelete(p, token, credId) ==
    /\ CanStart(p)
    /\ LET r == [IdleReq EXCEPT !.op = "delete", !.token = token, !.credId = credId]
           s == authenticateToken(token, now)
       IN IF s # 0
          THEN Arrive(p, [r EXCEPT !.pc = "done", !.status = s])
          ELSE Arrive(p, [r EXCEPT !.pc = "del_find"])
    /\ UNCHANGED <<users, creds, userSeq, credSeq, tokens, env>>

\* UserCredential.findOne({ id, userId: req.user.userId, isActive, !isDeleted })
DelFind(p) ==
    /\ req[p].pc = "del_find"
    /\ LET found == {c \in ActiveCredentials(req[p].token.userId) : c.id = req[p].credId}
       IN IF found = {}
          THEN req' = [req EXCEPT ![p] = Respond(p, 404)]
          ELSE req' = [req EXCEPT ![p].cred = req[p].credId, ![p].pc = "del_count"]
    /\ UNCHANGED <<users, creds, userSeq, credSeq, tokens, env, nreq>>

\* the guard with < in place of <=
isLastCredentialOffByOne(credentialCount) == credentialCount < 1

\* the guard of the last credential: credentialCount <= 1
isLastCredential(credentialCount) == credentialCount <= 1

\* UserCredential.count({ userId: req.user.userId, isActive, !isDeleted })
DelCount(p) ==
    /\ req[p].pc = "del_count"
    /\ LET credentialCount == Cardinality(ActiveCredentials(req[p].token.userId))
       IN IF isLastCredential(credentialCount)
          THEN req' = [req EXCEPT ![p] = [Respond(p, 400) EXCEPT !.count = credentialCount]]
          ELSE req' = [req EXCEPT ![p].count = credentialCount, ![p].pc = "del_update"]
    /\ UNCHANGED <<users, creds, userSeq, credSeq, tokens, env, nreq>>

\* the row after credential.update({ isActive: false, isDeleted: true })
softDelete(credential) == [credential EXCEPT !.isActive = FALSE, !.isDeleted = TRUE]

DelUpdate(p) ==
    /\ req[p].pc = "del_update"
    /\ \E c \in creds :
         /\ c.id = req[p].cred
         /\ UpdateCredential(p, softDelete(c))
    /\ UNCHANGED <<users, userSeq, credSeq, tokens, env, nreq>>


\* ------------------------------------------------------------- POST /openid
ErrOpenIdValidation == "OpenID auth type requires provider and no password hash"

\* the catch block of the OpenID route: rollback and 500
OpenIdFail(p, err) == [Respond(p, 500) EXCEPT !.tx = "rollback", !.err = err]

StartOpenId(p, provider, subject, email, loginName) ==
    /\ CanStart(p)
    /\ LET r == [IdleReq EXCEPT !.op = "openid", !.provider = provider,
                                !.subject = subject, !.email = email,
                                !.loginName = loginName]
       IN IF Falsy(provider) \/ Falsy(subject) \/ Falsy(email) \/ Falsy(loginName)
          THEN Arrive(p, [r EXCEPT !.pc = "done", !.status = 400])
          ELSE Arrive(p, [r EXCEPT !.pc = "oid_findCred", !.tx = "open"])
    /\ UNCHANGED <<users, creds, userSeq, credSeq, tokens, env>>

\* UserCredential.findOne({ openIdProvider, openIdSubject, isActive, !isDeleted })
OidFindCredential(p) ==
    /\ req[p].pc = "oid_findCred"
    /\ LET found == {c \in VisibleCreds(p) :
                        /\ c.openIdProvider = req[p].provider
                        /\ c.openIdSubject = req[p].subject
                        /\ c.isActive /\ ~c.isDeleted}
       IN IF found = {}
          THEN req' = [req EXCEPT ![p].pc = "oid_findUser"]
          ELSE \E c \in found :
                 req' = [req EXCEPT ![p].cred = c.id, ![p].user = c.userId,
                                    ![p].pc = "oid_commit"]
    /\ UNCHANGED <<users, creds, userSeq, credSeq, tokens, env, nreq>>

\* User.findOne({ where: { email }, transaction })
OidFindUser(p) ==
    /\ req[p].pc = "oid_findUser"
    /\ LET found == {u \in VisibleUsers(p) : u.email = req[p].email} IN
       IF found = {}
       THEN req' = [req EXCEPT ![p].pc = "oid_createUser"]
       ELSE \E u \in found : req' = [req EXCEPT ![p].user = u.id, ![p].pc = "oid_createCred"]
    /\ UNCHANGED <<users, creds, userSeq, credSeq, tokens, env, nreq>>

\* User.create({ email, ..., roleId: 1, isActive: true, isDeleted: false })
OidCreateUser(p) ==
    /\ req[p].pc = "oid_createUser"
    /\ ~UserInsertBlocked(p, req[p].email)
    /\ IF \E u \in VisibleUsers(p) : u.email = req[p].email
       THEN /\ req' = [req EXCEPT ![p] = OpenIdFail(p, ErrUnique)]
            /\ UNCHANGED userSeq
       ELSE LET row == [id |-> userSeq + 1, email |-> req[p].email, roleId |-> 1,
                        isActive |-> TRUE, isDeleted |-> FALSE]
            IN /\ req' = [req EXCEPT ![p].txUsers = @ \cup {row}, ![p].user = row.id,
                                     ![p].newUser = row.id,
                                     ![p].pc = "oid_createCred"]
               /\ userSeq' = userSeq + 1
    /\ UNCHANGED <<users, creds, credSeq, tokens, env, nreq>>

\* the row the OpenID route inserts (lastPasswordChange -1: null)
openIdCredentialRow(id, userId, loginName, provider, subject) ==
    [id |-> id, userId |-> userId, authType |-> "openid", loginName |-> loginName,
     passwordHash |-> Null, openIdProvider |-> provider,
     openIdSubject |-> subject, passwordExpired |-> FALSE, lastPasswordChange |-> -1,
     isActive |-> TRUE, isDeleted |-> FALSE]

\* UserCredential.create({ userId, authType: 'openid', ... }, { transaction })
OidCreateCredential(p) ==
    /\ req[p].pc = "oid_createCred"
    /\ LET row == openIdCredentialRow(credSeq + 1, req[p].user, req[p].loginName,
                                      req[p].provider, req[p].subject)
       IN /\ ~CredInsertBlocked(p, row)
          /\ IF ~beforeValidate(row)
             THEN /\ req' = [req EXCEPT ![p] = OpenIdFail(p, ErrOpenIdValidation)]
                  /\ UNCHANGED credSeq
             ELSE IF \E c \in VisibleCreds(p) : CredentialConflict(row, c)
             THEN /\ req' = [req EXCEPT ![p] = OpenIdFail(p, ErrUnique)]
                  /\ credSeq' = credSeq + 1
             ELSE /\ req' = [req EXCEPT ![p].txCreds = @ \cup {row}, ![p].cred = row.id,
                                        ![p].pc = "oid_commit"]
                  /\ credSeq' = credSeq + 1
    /\ UNCHANGED <<users, creds, userSeq, tokens, env, nreq>>

\* transaction.commit(), Role.findByPk, generateToken, and the 200 of the route
OidCommit(p) ==
    /\ req[p].pc = "oid_commit"
    /\ users' = users \cup req[p].txUsers
    /\ creds' = creds \cup req[p].txCreds
    /\ LET user == CHOOSE u \in VisibleUsers(p) : u.id = req[p].user
           cred == CHOOSE c \in VisibleCreds(p) : c.id = req[p].cred
       IN tokens' = tokens \cup {generateToken(user, cred, now)}
    /\ req' = [req EXCEPT ![p] = [Respond(p, 200) EXCEPT !.tx = "commit"]]
    /\ UNCHANGED <<userSeq, credSeq, env, nreq>>

\* ------------------------------------------------------------- passwords: rotation
\* newPassword.length < 8
MinPasswordLength == 8

\* the password credential change-password and reset-password-confirm look up:
\* UserCredential.findOne({ userId, authType: 'password', isActive, !isDeleted })
PasswordCredentials(userId) ==
    {c \in ActiveCredentials(userId) : c.authType = "password"}

\* the update without passwordExpired: false
rotatePasswordKeepExpired(credential, newPassword) ==
    [credential EXCEPT !.passwordHash = hashPassword(newPassword),
                       !.lastPasswordChange = now]

\* credential.update({ passwordHash: hash, passwordSalt, lastPasswordChange:
\* new Date(), passwordExpired: false }): the row after the update
rotatePassword(credential, newPassword) ==
    [credential EXCEPT !.passwordHash = hashPassword(newPassword),
                       !.lastPasswordChange = now,
                       !.passwordExpired = FALSE]

\* POST /change-password: authenticateToken, then the body check
StartChangePassword(p, token, currentPassword, newPassword) ==
    /\ CanStart(p)
    /\ LET r == [IdleReq EXCEPT !.op = "change-password", !.token = token,
                                !.password = currentPassword,
                                !.newPassword = newPassword]
           s == authenticateToken(token, now)
       IN IF s # 0
          THEN Arrive(p, [r EXCEPT !.pc = "done", !.status = s])
          ELSE IF Falsy(currentPassword) \/ Falsy(newPassword)
          THEN Arrive(p, [r EXCEPT !.pc = "done", !.status = 400])
          ELSE IF Len(newPassword) < MinPasswordLength
          THEN Arrive(p, [r EXCEPT !.pc = "done", !.status = 400])
          ELSE Arrive(p, [r EXCEPT !.pc = "cp_find"])
    /\ UNCHANGED <<users, creds, userSeq, credSeq, tokens, env>>

\* CpFind without bcrypt.compare
CpFindNoCompare(p) ==
    /\ req[p].pc = "cp_find"
    /\ LET found == PasswordCredentials(req[p].token.userId) IN
       IF found = {}
       THEN req' = [req EXCEPT ![p] = Respond(p, 400)]
       ELSE \E c \in found : req' = [req EXCEPT ![p].cred = c.id, ![p].pc = "cp_update"]
    /\ UNCHANGED <<users, creds, userSeq, credSeq, tokens, env, nreq>>

\* findOne, then bcrypt.compare(currentPassword, credential.passwordHash)
CpFind(p) ==
    /\ req[p].pc = "cp_find"
    /\ LET found == PasswordCredentials(req[p].token.userId) IN
       IF found = {}
       THEN req' = [req EXCEPT ![p] = Respond(p, 400)]
       ELSE \E c \in found :
              IF ~bcryptCompare(req[p].password, c.passwordHash)
              THEN req' = [req EXCEPT ![p] = [Respond(p, 400) EXCEPT !.cred = c.id]]
              ELSE req' = [req EXCEPT ![p].cred = c.id, ![p].pc = "cp_update"]
    /\ UNCHANGED <<users, creds, userSeq, credSeq, tokens, env, nreq>>

\* hashPassword(newPassword), then credential.update
CpUpdate(p) ==
    /\ req[p].pc = "cp_update"
    /\ \E c \in creds :
         /\ c.id = req[p].cred
         /\ UpdateCredential(p, rotatePassword(c, req[p].newPassword))
    /\ UNCHANGED <<users, userSeq, credSeq, tokens, env, nreq>>

\* POST /reset-password-request: User.findOne({ email }), jwt.sign, and
\* sendPasswordResetEmail, which delivers the token or throws
ResetPasswordRequest(p, email, delivered) ==
    /\ CanStart(p)
    /\ LET r == [IdleReq EXCEPT !.op = "reset-request", !.email = email, !.pc = "done"]
           found == {u \in users : u.email = email}
       IN IF Falsy(email)
          THEN Arrive(p, [r EXCEPT !.status = 400]) /\ tokens' = tokens
          ELSE IF found = {}
          THEN Arrive(p, [r EXCEPT !.status = 200]) /\ tokens' = tokens
          ELSE \E u \in found :
                 IF delivered
                 THEN /\ Arrive(p, [r EXCEPT !.status = 200, !.user = u.id])
                      /\ tokens' = tokens \cup {resetToken(u, now)}
                 ELSE /\ Arrive(p, [r EXCEPT !.status = 500, !.user = u.id])
                      /\ tokens' = tokens
    /\ UNCHANGED <<users, creds, userSeq, credSeq, env>>

\* POST /reset-password-confirm: the body check, then jwt.verify(resetToken)
StartResetConfirm(p, token, newPassword) ==
    /\ CanStart(p)
    /\ LET r == [IdleReq EXCEPT !.op = "reset-confirm", !.token = token,
                                !.newPassword = newPassword]
       IN IF token = NoToken \/ Falsy(newPassword)
          THEN Arrive(p, [r EXCEPT !.pc = "done", !.status = 400])
          ELSE IF Len(newPassword) < MinPasswordLength
          THEN Arrive(p, [r EXCEPT !.pc = "done", !.status = 400])
          ELSE IF ~jwtVerify(token, now)
          THEN Arrive(p, [r EXCEPT !.pc = "done", !.status = 401])
          ELSE Arrive(p, [r EXCEPT !.pc = "rc_find"])
    /\ UNCHANGED <<users, creds, userSeq, credSeq, tokens, env>>

\* UserCredential.findOne({ userId: decoded.userId, authType: 'password', ... })
RcFind(p) ==
    /\ req[p].pc = "rc_find"
    /\ LET found == PasswordCredentials(req[p].token.userId) IN
       IF found = {}
       THEN req' = [req EXCEPT ![p] = Respond(p, 404)]
       ELSE \E c \in found : req' = [req EXCEPT ![p].cred = c.id, ![p].pc = "rc_update"]
    /\ UNCHANGED <<users, creds, userSeq, credSeq, tokens, env, nreq>>

\* hashPassword(newPassword), then credential.update
RcUpdate(p) ==
    /\ req[p].pc = "rc_update"
    /\ \E c \in creds :
         /\ c.id = req[p].cred
         /\ UpdateCredential(p, rotatePassword(c, req[p].newPassword))
    /\ UNCHANGED <<users, userSeq, credSeq, tokens, env, nreq>>


\* ------------------------------------------------------------- POST /login
\* the messages of the responses of login
MsgLoginRequired == "Login name and password are required"
MsgInvalidLogin == "Invalid login credentials"
MsgPasswordExpired == "Password has expired. Please reset your password."
MsgLoginSuccessful == "Login successful"

\* the credential, with its user, that login looks up
LoginCredentials(loginName) ==
    {c \in creds :
        /\ c.loginName = loginName /\ c.authType = "password"
        /\ c.isActive /\ ~c.isDeleted
        /\ \E u \in users : u.id = c.userId /\ u.isActive /\ ~u.isDeleted}

\* router.post('/login'): the token is made from the rows of the first query
PostLogin(p, loginName, password) ==
    /\ CanStart(p)
    /\ LET r == [IdleReq EXCEPT !.op = "login", !.loginName = loginName,
                                !.password = password, !.pc = "done"]
           found == LoginCredentials(loginName)
       IN IF Falsy(loginName) \/ Falsy(password)
          THEN Arrive(p, [r EXCEPT !.status = 400, !.message = MsgLoginRequired])
               /\ tokens' = tokens
          ELSE IF found = {}
          THEN Arrive(p, [r EXCEPT !.status = 401, !.message = MsgInvalidLogin])
               /\ tokens' = tokens
          ELSE \E c \in found :
                 IF c.passwordExpired
                 THEN Arrive(p, [r EXCEPT !.status = 401, !.cred = c.id,
                                          !.message = MsgPasswordExpired])
                      /\ tokens' = tokens
                 ELSE IF ~bcryptCompare(password, c.passwordHash)
                 THEN Arrive(p, [r EXCEPT !.status = 401, !.cred = c.id,
                                          !.message = MsgInvalidLogin])
                      /\ tokens' = tokens
                 ELSE LET user == CHOOSE u \in users : u.id = c.userId IN
                      /\ Arrive(p, [r EXCEPT !.status = 200, !.cred = c.id, !.user = user.id,
                                             !.message = MsgLoginSuccessful])
                      /\ tokens' = tokens \cup {generateToken(user, c, now)}
    /\ UNCHANGED <<users, creds, userSeq, credSeq, env>>

\* ------------------------------------------------------------- the Auth Guard and the gates
PermissionCodes == {"LIST_PROFILES"}

\* a JS value: a string, or an object (a Permission instance with its code)
JsString(s) == [type |-> "string", value |-> s]
PermissionInstance(code) == [type |-> "object", value |-> code]

\* a === b, as Array.prototype.includes compares: an object is equal only to
\* itself, and no string is an object
StrictEquals(a, b) == a.type = "string" /\ b.type = "string" /\ a.value = b.value

Includes(array, x) == \E e \in array : StrictEquals(e, x)

\* the routes behind a token
GuardedEndpoints == {"GET /api/profiles", "POST /api/roles/:id/permissions"}
TokenEndpoints == {"GET /api/auth/credentials"}
\* router.put('/:id', authGuard, requirePermissions('MANAGE_ROLES'), ...)
ManageRolesEndpoints == {"PUT /api/roles/:id"}

\* requirePermissions('LIST_PROFILES') of router.get('/') of profile-api.js,
\* requirePermissions('MANAGE_ROLES') of router.put('/:id') of the roles router
RequiredPermissions(endpoint) ==
    IF endpoint = "GET /api/profiles" THEN {"LIST_PROFILES"}
    ELSE IF endpoint \in ManageRolesEndpoints THEN {"MANAGE_ROLES"}
    ELSE {}

\* authGuard up to its first await: 0 when it goes on to User.findOne
authGuardToken(token, t) ==
    IF token = NoToken THEN 401
    ELSE IF ~jwtVerify(token, t) THEN 403
    ELSE 0

\* the lookup without its isActive and isDeleted conditions
authGuardLookupAnyUser(userId) ==
    {[id |-> u.id, roleId |-> u.roleId,
      role |-> [id |-> u.roleId,
                permissions |-> {PermissionInstance(c) : c \in rolePerms[u.roleId]}]] :
        u \in {v \in users : v.id = userId}}

\* User.findOne({ id: decoded.userId, isActive: true, isDeleted: false },
\* include role, include permissions): the rows found, as the instance
authGuardLookup(userId) ==
    {[id |-> u.id, roleId |-> u.roleId,
      role |-> [id |-> u.roleId,
                permissions |-> {PermissionInstance(c) : c \in rolePerms[u.roleId]}]] :
        u \in {v \in users : v.id = userId /\ v.isActive /\ ~v.isDeleted}}

\* req.permissions = user.role.permissions.map(p => p.code)
permissionCodes(userRecord) == {perm.value : perm \in userRecord.role.permissions}

\* requirePermissions(...permissions): 0 when it calls next()
requirePermissions(permissions, userRecord) ==
    IF userRecord = NoRecord \/ userRecord.role.id = 0 THEN 401
    ELSE IF ~(\A permission \in permissions :
                 Includes(userRecord.role.permissions, JsString(permission)))
    THEN 403
    ELSE 0

UserGone(userId) == ~\E u \in users : u.id = userId /\ u.isActive /\ ~u.isDeleted

\* a request to a token-protected route arrives: the middleware runs up to its
\* first await
StartRequest(p, token, endpoint, role, code) ==
    /\ CanStart(p)
    /\ LET r == [IdleReq EXCEPT !.op = "request", !.token = token,
                                !.endpoint = endpoint, !.role = role, !.code = code,
                                !.gone = token # NoToken /\ UserGone(token.userId)]
           s == IF endpoint \in GuardedEndpoints \cup ManageRolesEndpoints
                THEN authGuardToken(token, now)
                ELSE authenticateToken(token, now)
       IN IF s # 0
          THEN Arrive(p, [r EXCEPT !.pc = "done", !.status = s])
          ELSE IF endpoint \in GuardedEndpoints \cup ManageRolesEndpoints
          THEN Arrive(p, [r EXCEPT !.pc = "guard_lookup"])
          ELSE Arrive(p, [r EXCEPT !.pc = "handler", !.authorized = TRUE])
    /\ UNCHANGED <<users, creds, userSeq, credSeq, tokens, env>>

\* authGuard after User.findOne, and the gate that next() runs at once; past
\* its gate, PUT /api/roles/:id is at its Role.findByPk
GuardLookup(p) ==
    /\ req[p].pc = "guard_lookup"
    /\ LET found == authGuardLookup(req[p].token.userId) IN
       IF found = {}
       THEN req' = [req EXCEPT ![p] = [Respond(p, 403) EXCEPT !.queries = 1]]
       ELSE \E user \in found :
              LET r == [req[p] EXCEPT !.queries = 1, !.userRecord = user,
                                      !.permissions = permissionCodes(user),
                                      !.authorized = TRUE]
                  s == requirePermissions(RequiredPermissions(req[p].endpoint), user)
              IN IF s # 0
                 THEN req' = [req EXCEPT ![p] = [r EXCEPT !.pc = "done", !.status = s]]
                 ELSE IF req[p].endpoint \in ManageRolesEndpoints
                 THEN req' = [req EXCEPT ![p] = [r EXCEPT !.pc = "put_findRole"]]
                 ELSE req' = [req EXCEPT ![p] = [r EXCEPT !.pc = "handler"]]
    /\ UNCHANGED <<users, creds, userSeq, credSeq, tokens, env, nreq>>

\* the route handlers: their store query and their answer
Handler(p) ==
    /\ req[p].pc = "handler"
    /\ LET e == req[p].endpoint
           status ==
             IF e = "POST /api/roles/:id/permissions"
             THEN IF Falsy(req[p].code) THEN 400
                  ELSE IF req[p].role \notin RoleIds THEN 404 ELSE 200
             ELSE 200
       IN /\ req' = [req EXCEPT ![p] = [Respond(p, status) EXCEPT !.handled = TRUE]]
          /\ IF e = "POST /api/roles/:id/permissions" /\ status = 200
             THEN rolePerms' = [rolePerms EXCEPT ![req[p].role] = @ \cup {req[p].code}]
             ELSE rolePerms' = rolePerms
    /\ UNCHANGED <<users, creds, userSeq, credSeq, tokens, now, jwtExpiresIn, invites,
                   certificates, nreq>>

\* ------------------------------------------------------------- POST /api/invites/accept
Guids == {"g1", "g2"}
\* req.body.dob: absent, a date, and a string that is no date
Dobs == {Null, "2000-01-01", "not a date"}

\* Invite.scope('active'): isActive: true, isDeleted: false
ActiveInvites == {i \in invites : i.isActive /\ ~i.isDeleted}

\* the catch block of acceptInvite: transaction.rollback() rejects when the
\* transaction was rolled back before the throw, and that error replaces the
\* caught one
acceptInviteCatch(tx, err) == IF tx = "open" THEN err ELSE ErrRollbackFinished

AcceptFail(p, tx, err) ==
    LET message == acceptInviteCatch(tx, err) IN
    [Respond(p, acceptErrorStatus(message)) EXCEPT !.err = message]

\* router.post('/accept'): the validators of the route, then acceptInvite
\* opens its transaction
StartAccept(p, guid, email, password, dob) ==
    /\ CanStart(p)
    /\ LET r == [IdleReq EXCEPT !.op = "accept", !.guid = guid, !.email = email,
                                !.password = password, !.dob = dob]
       IN IF Falsy(guid) \/ Falsy(email) \/ Len(password) < MinPasswordLength
          THEN Arrive(p, [r EXCEPT !.pc = "done", !.status = 400])
          ELSE Arrive(p, [r EXCEPT !.pc = "inv_find"])
    /\ UNCHANGED <<users, creds, userSeq, credSeq, tokens, env>>

\* Invite.scope('active').findOne({ guid, email }); without one: rollback and
\* throw 'Invalid or expired invite'
InvFind(p) ==
    /\ req[p].pc = "inv_find"
    /\ LET found == {i \in ActiveInvites : i.guid = req[p].guid /\ i.email = req[p].email}
       IN IF found = {}
          THEN req' = [req EXCEPT ![p] = AcceptFail(p, "rollback", ErrInvalidInvite)]
          ELSE \E i \in found : req' = [req EXCEPT ![p].invite = i.id, ![p].pc = "inv_findUser"]
    /\ UNCHANGED <<users, creds, userSeq, credSeq, tokens, env, nreq>>

\* User.findOne({ email }); with one: rollback and throw 'User with this email
\* already exists'; else registerUser({ email, password, loginName: email,
\* roleId: 1 }) opens its own transaction
InvFindUser(p) ==
    /\ req[p].pc = "inv_findUser"
    /\ IF \E u \in users : u.email = req[p].email
       THEN req' = [req EXCEPT ![p] = AcceptFail(p, "rollback", ErrUserExists)]
       ELSE req' = [req EXCEPT ![p].loginName = req[p].email, ![p].roleId = 1,
                               ![p].tx = "open", ![p].pc = "reg_findUser"]
    /\ UNCHANGED <<users, creds, userSeq, credSeq, tokens, env, nreq>>

\* User.findByPk, user.update({ dateOfBirth: dob ? new Date(dob) : null, ... }):
\* the update throws on a date that is none, and the catch block rolls back
\* the transaction of acceptInvite
InvProfile(p) ==
    /\ req[p].pc = "inv_profile"
    /\ IF req[p].dob = "not a date"
       THEN req' = [req EXCEPT ![p] = AcceptFail(p, "open", ErrInvalidDate)]
       ELSE req' = [req EXCEPT ![p].pc = "inv_mark"]
    /\ UNCHANGED <<users, creds, userSeq, credSeq, tokens, env, nreq>>

\* the commit and the 201 without invite.update({ isActive: false })
InvMarkKeepActive(p) ==
    /\ req[p].pc = "inv_mark"
    /\ req' = [req EXCEPT ![p] = Respond(p, 201)]
    /\ UNCHANGED <<users, creds, userSeq, credSeq, tokens, env, nreq>>

\* invite.update({ isActive: false }), transaction.commit(), and the 201
InvMark(p) ==
    /\ req[p].pc = "inv_mark"
    /\ invites' = {IF i.id = req[p].invite THEN [i EXCEPT !.isActive = FALSE] ELSE i :
                     i \in invites}
    /\ req' = [req EXCEPT ![p] = Respond(p, 201)]
    /\ UNCHANGED <<users, creds, userSeq, credSeq, tokens, now, rolePerms, jwtExpiresIn,
                   certificates, nreq>>

\* ------------------------------------------------------------- POST /api/invites
ErrSelfInvite == "Useres cannot invite themselves."

\* router.post('/') catch: 400 for 'User with this email already exists', else 500
createInviteErrorStatus(message) == IF message = ErrUserExists THEN 400 ELSE 500

\* the guid of a new row (defaultValue: UUIDV4): one no other row has
inviteGuid(id) == <<"g1", "g2", "g3", "g4", "g5">>[id]

\* the row Invite.create inserts
inviteRow(id, email, senderId) ==
    [id |-> id, guid |-> inviteGuid(id), email |-> email, senderId |-> senderId,
     isActive |-> TRUE, isDeleted |-> FALSE]

\* a request to POST /api/invites arrives: authGuard up to its first await
StartCreateInvite(p, token, email) ==
    /\ CanStart(p)
    /\ LET r == [IdleReq EXCEPT !.op = "invite", !.token = token, !.email = email]
           s == authGuardToken(token, now)
       IN IF s # 0
          THEN Arrive(p, [r EXCEPT !.pc = "done", !.status = s])
          ELSE Arrive(p, [r EXCEPT !.pc = "ci_guard"])
    /\ UNCHANGED <<users, creds, userSeq, credSeq, tokens, env>>

\* authGuard after User.findOne; next() runs the handler up to its User.findOne
CiGuardLookup(p) ==
    /\ req[p].pc = "ci_guard"
    /\ LET found == authGuardLookup(req[p].token.userId) IN
       IF found = {}
       THEN req' = [req EXCEPT ![p] = [Respond(p, 403) EXCEPT !.queries = 1]]
       ELSE \E user \in found :
              req' = [req EXCEPT ![p].queries = 1, ![p].userRecord = user,
                                 ![p].permissions = permissionCodes(user),
                                 ![p].authorized = TRUE, ![p].pc = "ci_findUser"]
    /\ UNCHANGED <<users, creds, userSeq, credSeq, tokens, env, nreq>>

\* User.findOne({ email, isDeleted: false }); senderId === recipientId throws;
\* the connection is found or created; for a user that exists no invite is
\* made and the answer is 201, else createInvite is called
CiFindUser(p) ==
    /\ req[p].pc = "ci_findUser"
    /\ LET found == {u \in users : u.email = req[p].email /\ ~u.isDeleted}
           recipientId == IF found = {} THEN 0 ELSE (CHOOSE u \in found : TRUE).id
       IN
       IF req[p].token.userId = recipientId
       THEN req' = [req EXCEPT ![p] = [Respond(p, createInviteErrorStatus(ErrSelfInvite))
                                          EXCEPT !.err = ErrSelfInvite]]
       ELSE IF recipientId # 0
       THEN req' = [req EXCEPT ![p] = [Respond(p, 201) EXCEPT !.user = recipientId]]
       ELSE req' = [req EXCEPT ![p].pc = "ci_svcFindUser"]
    /\ UNCHANGED <<users, creds, userSeq, credSeq, tokens, env, nreq>>

\* createInvite: User.findOne({ email }); with one: throw 'User with this email
\* already exists'
CiSvcFindUser(p) ==
    /\ req[p].pc = "ci_svcFindUser"
    /\ IF \E u \in users : u.email = req[p].email
       THEN req' = [req EXCEPT ![p] = [Respond(p, createInviteErrorStatus(ErrUserExists))
                                          EXCEPT !.err = ErrUserExists]]
       ELSE req' = [req EXCEPT ![p].pc = "ci_findInvite"]
    /\ UNCHANGED <<users, creds, userSeq, credSeq, tokens, env, nreq>>

\* createInvite: Invite.findOne({ email, isActive: true, isDeleted: false });
\* the invite found is returned, the email is sent (its failure is logged) and
\* the answer is 201
CiFindInvite(p) ==
    /\ req[p].pc = "ci_findInvite"
    /\ LET found == {i \in ActiveInvites : i.email = req[p].email} IN
       IF found = {}
       THEN req' = [req EXCEPT ![p].pc = "ci_create"]
       ELSE \E i \in found : req' = [req EXCEPT ![p] = [Respond(p, 201) EXCEPT !.invite = i.id]]
    /\ UNCHANGED <<users, creds, userSeq, credSeq, tokens, env, nreq>>

\* createInvite: Invite.create({ email, senderId, connectionId, isActive: true,
\* isDeleted: false }); then the email, the notification and the 201
CiCreate(p) ==
    /\ req[p].pc = "ci_create"
    /\ LET row == inviteRow(Cardinality(invites) + 1, req[p].email, req[p].token.userId)
       IN /\ invites' = invites \cup {row}
          /\ req' = [req EXCEPT ![p] = [Respond(p, 201) EXCEPT !.invite = row.id]]
    /\ UNCHANGED <<users, creds, userSeq, credSeq, tokens, now, rolePerms, jwtExpiresIn,
                   certificates, nreq>>

\* ------------------------------------------------------------- /api/certificates
Titles == {"t1", "t2"}

\* the routes of the certificates router mounted with authGuard, and those
\* mounted with no middleware
CertificateGuardedEndpoints == {"GET /api/certificates", "GET /api/certificates/:id"}
CertificateOpenEndpoints == {"PUT /api/certificates/:id", "DELETE /api/certificates/:id"}

\* a request to the certificates router arrives: authGuard up to its first
\* await on the GET routes; PUT and DELETE start their handler, which reads
\* no token
StartCertificateRequest(p, token, endpoint, id, title) ==
    /\ CanStart(p)
    /\ LET r == [IdleReq EXCEPT !.op = "certificate", !.token = token,
                                !.endpoint = endpoint, !.certificate = id,
                                !.title = title]
           s == authGuardToken(token, now)
       IN IF endpoint \in CertificateOpenEndpoints
          THEN Arrive(p, [r EXCEPT !.pc = "cert_find"])
          ELSE IF s # 0
          THEN Arrive(p, [r EXCEPT !.pc = "done", !.status = s])
          ELSE Arrive(p, [r EXCEPT !.pc = "cert_guard"])
    /\ UNCHANGED <<users, creds, userSeq, credSeq, tokens, env>>

\* authGuard after User.findOne; next() runs the GET handler up to its query
CertGuardLookup(p) ==
    /\ req[p].pc = "cert_guard"
    /\ LET found == authGuardLookup(req[p].token.userId) IN
       IF found = {}
       THEN req' = [req EXCEPT ![p] = [Respond(p, 403) EXCEPT !.queries = 1]]
       ELSE \E user \in found :
              req' = [req EXCEPT ![p].queries = 1, ![p].userRecord = user,
                                 ![p].permissions = permissionCodes(user),
                                 ![p].authorized = TRUE, ![p].pc = "cert_get"]
    /\ UNCHANGED <<users, creds, userSeq, credSeq, tokens, env, nreq>>

\* router.get('/'): Certificate.findAll({ isDeleted: false, userId });
\* router.get('/:id'): Certificate.findOne({ id, isDeleted: false, userId }),
\* 404 without one
CertGet(p) ==
    /\ req[p].pc = "cert_get"
    /\ LET own == {c \in certificates : ~c.isDeleted /\ c.userId = req[p].token.userId}
           found == IF req[p].endpoint = "GET /api/certificates" THEN own
                    ELSE {c \in own : c.id = req[p].certificate}
           status == IF req[p].endpoint = "GET /api/certificates/:id" /\ found = {}
                     THEN 404 ELSE 200
       IN req' = [req EXCEPT ![p] = [Respond(p, status) EXCEPT !.handled = TRUE,
                                                                !.found = found]]
    /\ UNCHANGED <<users, creds, userSeq, credSeq, tokens, env, nreq>>

\* router.put('/:id') and router.delete('/:id'):
\* Certificate.findOne({ id, isDeleted: false }), 404 without one
CertFind(p) ==
    /\ req[p].pc = "cert_find"
    /\ LET found == {c \in certificates : c.id = req[p].certificate /\ ~c.isDeleted} IN
       IF found = {}
       THEN req' = [req EXCEPT ![p] = [Respond(p, 404) EXCEPT !.handled = TRUE]]
       ELSE req' = [req EXCEPT ![p].handled = TRUE, ![p].found = found,
                               ![p].pc = "cert_update"]
    /\ UNCHANGED <<users, creds, userSeq, credSeq, tokens, env, nreq>>

\* certificate.update({ title: title || certificate.title, ... }) of PUT,
\* certificate.update({ isDeleted: true }) of DELETE, and the 200
CertUpdate(p) ==
    /\ req[p].pc = "cert_update"
    /\ certificates' =
         {IF c.id # req[p].certificate THEN c
          ELSE IF req[p].endpoint = "DELETE /api/certificates/:id"
          THEN [c EXCEPT !.isDeleted = TRUE]
          ELSE [c EXCEPT !.title = IF Falsy(req[p].title) THEN c.title ELSE req[p].title] :
             c \in certificates}
    /\ req' = [req EXCEPT ![p] = Respond(p, 200)]
    /\ UNCHANGED <<users, creds, userSeq, credSeq, tokens, now, rolePerms, jwtExpiresIn,
                   invites, nreq>>

\* ------------------------------------------------------------- ownerGuard and /api/profiles/:email
\* the emails of req.params.email: those of the users, and one of no user
ProfileEmails == Emails \cup {"e3"}

ErrResolver == "Error determining resource ownership"

\* getResourceOwnerId of router.get('/:email') and router.put('/:email'):
\* User.findOne({ email, isDeleted: false }), user ? user.id : null (0: null)
getResourceOwnerId(email) ==
    IF \E u \in users : u.email = email /\ ~u.isDeleted
    THEN (CHOOSE u \in users : u.email = email /\ ~u.isDeleted).id
    ELSE 0

\* the bypass read from the live record in place of the token
ownerGuardLive(user, userRecord, ownerId) ==
    IF user.userId = ownerId \/ userRecord.roleId = 1 THEN 0 ELSE 403

\* ownerGuard: req.user.userId === ownerId || req.user.roleId === 1, with
\* req.user the decoded token; 0 when it calls next()
ownerGuard(user, userRecord, ownerId) ==
    IF user.userId = ownerId \/ user.roleId = 1 THEN 0 ELSE 403

\* a request to GET or PUT /api/profiles/:email arrives: authGuard up to its
\* first await
StartOwnerRequest(p, token, endpoint, email, roleId) ==
    /\ CanStart(p)
    /\ LET r == [IdleReq EXCEPT !.op = "profile", !.token = token,
                                !.endpoint = endpoint, !.email = email,
                                !.roleId = roleId]
           s == authGuardToken(token, now)
       IN IF s # 0
          THEN Arrive(p, [r EXCEPT !.pc = "done", !.status = s])
          ELSE Arrive(p, [r EXCEPT !.pc = "own_guard"])
    /\ UNCHANGED <<users, creds, userSeq, credSeq, tokens, env>>

\* authGuard after User.findOne; next() runs ownerGuard up to the await of
\* getResourceOwnerId
OwnerGuardLookup(p) ==
    /\ req[p].pc = "own_guard"
    /\ LET found == authGuardLookup(req[p].token.userId) IN
       IF found = {}
       THEN req' = [req EXCEPT ![p] = [Respond(p, 403) EXCEPT !.queries = 1]]
       ELSE \E user \in found :
              req' = [req EXCEPT ![p].queries = 1, ![p].userRecord = user,
                                 ![p].permissions = permissionCodes(user),
                                 ![p].authorized = TRUE, ![p].pc = "own_resolve"]
    /\ UNCHANGED <<users, creds, userSeq, credSeq, tokens, env, nreq>>

\* ownerGuard after getResourceOwnerId, which resolves the owner or throws
OwnerResolve(p, throws) ==
    /\ req[p].pc = "own_resolve"
    /\ IF throws
       THEN req' = [req EXCEPT ![p] = [Respond(p, 500) EXCEPT !.err = ErrResolver]]
       ELSE LET ownerId == getResourceOwnerId(req[p].email)
                s == ownerGuard(req[p].token, req[p].userRecord, ownerId)
            IN IF s # 0
               THEN req' = [req EXCEPT ![p] = [Respond(p, s) EXCEPT !.user = ownerId]]
               ELSE req' = [req EXCEPT ![p].user = ownerId, ![p].pc = "own_handler"]
    /\ UNCHANGED <<users, creds, userSeq, credSeq, tokens, env, nreq>>

\* the handlers after their User.findOne({ email, isDeleted: false }): GET
\* answers; PUT checks req.userRecord against the user found and goes on to
\* user.update
OwnerHandler(p) ==
    /\ req[p].pc = "own_handler"
    /\ LET ownerId == getResourceOwnerId(req[p].email)
           r == [req[p] EXCEPT !.handled = TRUE, !.user = ownerId]
       IN IF ownerId = 0
          THEN req' = [req EXCEPT ![p] = [r EXCEPT !.pc = "done", !.status = 404]]
          ELSE IF req[p].endpoint = "GET /api/profiles/:email"
          THEN req' = [req EXCEPT ![p] = [r EXCEPT !.pc = "done", !.status = 200]]
          ELSE IF req[p].userRecord.id # ownerId /\ req[p].userRecord.roleId # 1
          THEN req' = [req EXCEPT ![p] = [r EXCEPT !.pc = "done", !.status = 403]]
          ELSE req' = [req EXCEPT ![p] = [r EXCEPT !.pc = "own_update",
                          !.role = (CHOOSE u \in users : u.id = ownerId).roleId]]
    /\ UNCHANGED <<users, creds, userSeq, credSeq, tokens, env, nreq>>

\* user.update({ ..., roleId: roleId || user.roleId, ... }) of PUT
OwnerUpdate(p) ==
    /\ req[p].pc = "own_update"
    /\ users' = {IF u.id = req[p].user
                 THEN [u EXCEPT !.roleId = IF req[p].roleId = 0 THEN req[p].role
                                           ELSE req[p].roleId]
                 ELSE u : u \in users}
    /\ req' = [req EXCEPT ![p] = Respond(p, 200)]
    /\ UNCHANGED <<creds, userSeq, credSeq, tokens, env, nreq>>

\* router.delete('/:id') of manage-user-api.js: user.update({ isDeleted: true,
\* isActive: false })
SoftDeleteUser(id) ==
    /\ \E u \in users : u.id = id /\ ~u.isDeleted
    /\ users' = {IF u.id = id THEN [u EXCEPT !.isDeleted = TRUE, !.isActive = FALSE]
                 ELSE u : u \in users}
    /\ UNCHANGED <<creds, userSeq, credSeq, tokens, env, req, nreq>>

\* the PasswordExpired column of a password credential is set in the store;
\* no route of this code sets it, login reads it
ExpirePassword(id) ==
    /\ \E c \in creds : c.id = id /\ c.authType = "password" /\ ~c.passwordExpired
    /\ creds' = {IF c.id = id THEN [c EXCEPT !.passwordExpired = TRUE] ELSE c : c \in creds}
    /\ UNCHANGED <<users, userSeq, credSeq, tokens, env, req, nreq>>

\* time passes
Tick ==
    /\ now < MaxTime
    /\ now' = now + 1
    /\ UNCHANGED <<users, creds, userSeq, credSeq, tokens, rolePerms, jwtExpiresIn, invites,
                   certificates, req, nreq>>

\* ------------------------------------------------------------- specification
InitStore ==
    /\ users = {} /\ creds = {}
    /\ userSeq = 0 /\ credSeq = 0
    /\ tokens = {}
    /\ now = 0
    /\ rolePerms = [r \in RoleIds |-> {}]
    /\ jwtExpiresIn = ExpiresIn
    /\ invites = {}
    /\ certificates = {}

InitCred ==
    /\ InitStore
    /\ req = [p \in Procs |-> IdleReq]
    /\ nreq = MaxRequests

Register(p) ==
    \/ \E e \in Emails, pw \in RegisterPasswords, l \in LoginNames :
          StartRegister(p, e, pw, l, 0)
    \/ RegFindUser(p)
    \/ RegCreateUser(p)
    \/ RegFindCredential(p)
    \/ RegCreateCredential(p)
    \/ RegCommit(p)

DeleteCredential(p) ==
    \/ \E t \in tokens \cup {NoToken}, id \in 1..credSeq : StartDelete(p, t, id)
    \/ DelFind(p)
    \/ DelCount(p)
    \/ DelUpdate(p)

OpenId(p) ==
    \/ \E pr \in Providers, sub \in Subjects, e \in Emails, l \in LoginNames :
          StartOpenId(p, pr, sub, e, l)
    \/ OidFindCredential(p)
    \/ OidFindUser(p)
    \/ OidCreateUser(p)
    \/ OidCreateCredential(p)
    \/ OidCommit(p)

ChangePassword(p) ==
    \/ \E t \in tokens, cur \in Passwords, new \in Passwords :
          StartChangePassword(p, t, cur, new)
    \/ CpFind(p)
    \/ CpUpdate(p)

ResetPassword(p) ==
    \/ \E e \in Emails, delivered \in BOOLEAN : ResetPasswordRequest(p, e, delivered)
    \/ \E t \in tokens, new \in Passwords : StartResetConfirm(p, t, new)
    \/ RcFind(p)
    \/ RcUpdate(p)

\* the credential handlers of /api/auth that change the store, run concurrently
NextCred == \E p \in Procs : Register(p) \/ DeleteCredential(p)

\* every handler of /api/auth that writes a credential
NextStore ==
    \E p \in Procs :
       \/ Register(p)
       \/ OpenId(p)
       \/ ChangePassword(p)
       \/ ResetPassword(p)
       \/ DeleteCredential(p)

SpecCred == InitCred /\ [][NextCred]_vars

InitStoreSpec ==
    /\ InitStore
    /\ req = [p \in Procs |-> IdleReq]
    /\ nreq = MaxStoreRequests

SpecStore == InitStoreSpec /\ [][NextStore]_vars

\* a token signed with another secret
ForgedToken ==
    [claims |-> {"userId", "email", "loginName", "authType", "roleId", "avatarId"},
     userId |-> 1, roleId |-> 1, exp |-> MaxTime + 1, signed |-> FALSE]

\* the store after POST /register { e1, a, pw1 }
InitGuard ==
    /\ now = 0
    /\ users = {[id |-> 1, email |-> "e1", roleId |-> 1, isActive |-> TRUE, isDeleted |-> FALSE]}
    /\ creds = {registerCredentialRow(1, 1, "a", "password1")}
    /\ userSeq = 1 /\ credSeq = 1
    /\ tokens = {}
    /\ rolePerms = [r \in RoleIds |-> {}]
    /\ jwtExpiresIn \in {0, ExpiresIn}
    /\ invites = {}
    /\ certificates = {}
    /\ req = [p \in Procs |-> IdleReq]
    /\ nreq = MaxGuardRequests

NextGuard ==
    \/ \E p \in Procs :
          \/ \E l \in LoginNames, pw \in RegisterPasswords : PostLogin(p, l, pw)
          \/ \E e \in Emails : ResetPasswordRequest(p, e, TRUE)
          \/ \E t \in tokens \cup {NoToken, ForgedToken},
                e \in GuardedEndpoints \cup TokenEndpoints :
                IF e = "POST /api/roles/:id/permissions"
                THEN \E r \in RoleIds, c \in PermissionCodes : StartRequest(p, t, e, r, c)
                ELSE StartRequest(p, t, e, 0, Null)
          \/ GuardLookup(p)
          \/ Handler(p)
    \/ \E u \in 1..userSeq : SoftDeleteUser(u)
    \/ Tick

SpecGuard == InitGuard /\ [][NextGuard]_vars

\* the store after POST /register { e1, a, pw1 } and POST /openid { google, s1,
\* e1, b }: one user with a password credential and an OpenID credential, and
\* the token of the OpenID call
InitOpenId ==
    LET user == [id |-> 1, email |-> "e1", roleId |-> 1, isActive |-> TRUE, isDeleted |-> FALSE]
        credential == openIdCredentialRow(2, 1, "b", "google", "s1")
    IN /\ users = {user}
       /\ now = 0
       /\ creds = {registerCredentialRow(1, 1, "a", "password1"), credential}
       /\ userSeq = 1 /\ credSeq = 2
       /\ rolePerms = [r \in RoleIds |-> {}]
       /\ jwtExpiresIn = ExpiresIn
       /\ invites = {}
       /\ certificates = {}
       /\ tokens = {generateToken(user, credential, now)}
       /\ req = [p \in Procs |-> IdleReq]
       /\ nreq = MaxStoreRequests

\* the OpenID flow and the deletion of credentials, run concurrently
NextOpenId == \E p \in Procs : OpenId(p) \/ DeleteCredential(p)

SpecOpenId == InitOpenId /\ [][NextOpenId]_vars

\* the store after POST /register { e1, a, password1 }
InitLogin ==
    /\ now = 0
    /\ users = {[id |-> 1, email |-> "e1", roleId |-> 1, isActive |-> TRUE, isDeleted |-> FALSE]}
    /\ creds = {registerCredentialRow(1, 1, "a", "password1")}
    /\ userSeq = 1 /\ credSeq = 1
    /\ tokens = {}
    /\ rolePerms = [r \in RoleIds |-> {}]
    /\ jwtExpiresIn = ExpiresIn
    /\ invites = {}
    /\ certificates = {}
    /\ req = [p \in Procs |-> IdleReq]
    /\ nreq = MaxLoginRequests

\* login and change-password, run concurrently, on a store where passwords
\* expire and users are deleted
NextLogin ==
    \/ \E p \in Procs :
          \/ \E l \in LoginNames, pw \in Passwords : PostLogin(p, l, pw)
          \/ \E t \in tokens \cup {NoToken}, cur \in Passwords, new \in NewPasswords :
                StartChangePassword(p, t, cur, new)
          \/ CpFind(p)
          \/ CpUpdate(p)
    \/ \E c \in 1..credSeq : ExpirePassword(c)
    \/ \E u \in 1..userSeq : SoftDeleteUser(u)

SpecLogin == InitLogin /\ [][NextLogin]_vars

\* the password reset and login, run concurrently, as time passes, on the
\* store of InitLogin
NextReset ==
    \/ \E p \in Procs :
          \/ ResetPassword(p)
          \/ \E l \in LoginNames, pw \in Passwords : PostLogin(p, l, pw)
    \/ Tick

SpecReset == InitLogin /\ [][NextReset]_vars

\* the store after POST /register { e1, a, password1 } and POST /register
\* { e2, b, password1, roleId 2 }
InitOwner ==
    /\ now = 0
    /\ users = {[id |-> 1, email |-> "e1", roleId |-> 1, isActive |-> TRUE, isDeleted |-> FALSE],
                [id |-> 2, email |-> "e2", roleId |-> 2, isActive |-> TRUE, isDeleted |-> FALSE]}
    /\ creds = {registerCredentialRow(1, 1, "a", "password1"),
                registerCredentialRow(2, 2, "b", "password1")}
    /\ userSeq = 2 /\ credSeq = 2
    /\ tokens = {}
    /\ rolePerms = [r \in RoleIds |-> {}]
    /\ jwtExpiresIn = ExpiresIn
    /\ invites = {}
    /\ certificates = {}
    /\ req = [p \in Procs |-> IdleReq]
    /\ nreq = MaxOwnerRequests

\* login and the owner-guarded profile routes, run concurrently
NextOwner ==
    \E p \in Procs :
       \/ \E l \in LoginNames : PostLogin(p, l, "password1")
       \/ \E t \in tokens \cup {NoToken}, e \in ProfileEmails :
             StartOwnerRequest(p, t, "GET /api/profiles/:email", e, 0)
       \/ \E t \in tokens, e \in ProfileEmails, r \in RoleIds \cup {0} :
             StartOwnerRequest(p, t, "PUT /api/profiles/:email", e, r)
       \/ OwnerGuardLookup(p)
       \/ \E throws \in BOOLEAN : OwnerResolve(p, throws)
       \/ OwnerHandler(p)
       \/ OwnerUpdate(p)

SpecOwner == InitOwner /\ [][NextOwner]_vars

\* the store after POST /register { e1, a, password1 } and an invite of user 1
\* to the email e2
InitInvite ==
    /\ now = 0
    /\ users = {[id |-> 1, email |-> "e1", roleId |-> 1, isActive |-> TRUE, isDeleted |-> FALSE]}
    /\ creds = {registerCredentialRow(1, 1, "a", "password1")}
    /\ userSeq = 1 /\ credSeq = 1
    /\ tokens = {}
    /\ rolePerms = [r \in RoleIds |-> {}]
    /\ jwtExpiresIn = ExpiresIn
    /\ invites = {[id |-> 1, guid |-> "g1", email |-> "e2", senderId |-> 1,
                   isActive |-> TRUE, isDeleted |-> FALSE]}
    /\ certificates = {}
    /\ req = [p \in Procs |-> IdleReq]
    /\ nreq = MaxInviteRequests

AcceptInvite(p) ==
    \/ \E g \in Guids, e \in Emails, pw \in RegisterPasswords \cup {"short"}, dob \in Dobs :
          StartAccept(p, g, e, pw, dob)
    \/ InvFind(p)
    \/ InvFindUser(p)
    \/ RegFindUser(p)
    \/ RegCreateUser(p)
    \/ RegFindCredential(p)
    \/ RegCreateCredential(p)
    \/ RegCommit(p)
    \/ InvProfile(p)
    \/ InvMark(p)

\* the acceptance of invites and registration, run concurrently
NextInvite ==
    \E p \in Procs :
       \/ AcceptInvite(p)
       \/ \E e \in Emails, l \in ProfileEmails : StartRegister(p, e, "password1", l, 0)

SpecInvite == InitInvite /\ [][NextInvite]_vars

\* login, change-password and the password reset, run concurrently as time
\* passes, on the store of InitLogin where passwords expire
NextRotate ==
    \/ \E p \in Procs :
          \/ \E l \in LoginNames, pw \in Passwords : PostLogin(p, l, pw)
          \/ ChangePassword(p)
          \/ ResetPassword(p)
    \/ \E c \in 1..credSeq : ExpirePassword(c)
    \/ Tick

SpecRotate == InitLogin /\ [][NextRotate]_vars

\* the store after POST /register { e1, a, password1, roleId 2 }
InitSelfRegister ==
    /\ now = 0
    /\ users = {[id |-> 1, email |-> "e1", roleId |-> 2, isActive |-> TRUE, isDeleted |-> FALSE]}
    /\ creds = {registerCredentialRow(1, 1, "a", "password1")}
    /\ userSeq = 1 /\ credSeq = 1
    /\ tokens = {}
    /\ rolePerms = [r \in RoleIds |-> {}]
    /\ jwtExpiresIn = ExpiresIn
    /\ invites = {}
    /\ certificates = {}
    /\ req = [p \in Procs |-> IdleReq]
    /\ nreq = MaxSelfRegisterRequests

\* POST /register with no roleId in the body, and GET /api/profiles/:email
\* with the tokens it returns, run concurrently
NextSelfRegister ==
    \E p \in Procs :
       \/ Register(p)
       \/ \E t \in tokens, e \in ProfileEmails :
             StartOwnerRequest(p, t, "GET /api/profiles/:email", e, 0)
       \/ OwnerGuardLookup(p)
       \/ \E throws \in BOOLEAN : OwnerResolve(p, throws)
       \/ OwnerHandler(p)

SpecSelfRegister == InitSelfRegister /\ [][NextSelfRegister]_vars

\* the store after POST /register { e1, a, password1 }, with MANAGE_ROLES
\* attached to role 1
InitRolePut ==
    /\ now = 0
    /\ users = {[id |-> 1, email |-> "e1", roleId |-> 1, isActive |-> TRUE, isDeleted |-> FALSE]}
    /\ creds = {registerCredentialRow(1, 1, "a", "password1")}
    /\ userSeq = 1 /\ credSeq = 1
    /\ tokens = {}
    /\ rolePerms = [r \in RoleIds |-> IF r = 1 THEN {"MANAGE_ROLES"} ELSE {}]
    /\ jwtExpiresIn = ExpiresIn
    /\ invites = {}
    /\ certificates = {}
    /\ req = [p \in Procs |-> IdleReq]
    /\ nreq = MaxRolePutRequests

\* login and the routes of the roles router that write the role-permission
\* join, run concurrently
NextRolePut ==
    \/ \E p \in Procs :
          \/ \E l \in LoginNames, pw \in RegisterPasswords : PostLogin(p, l, pw)
          \/ \E t \in tokens \cup {NoToken}, r \in RoleIds, c \in PermissionCodes,
                e \in ManageRolesEndpoints \cup {"POST /api/roles/:id/permissions"} :
                StartRequest(p, t, e, r, c)
          \/ GuardLookup(p)
          \/ Handler(p)
    \/ Tick

SpecRolePut == InitRolePut /\ [][NextRolePut]_vars

\* the store after POST /register { e1, a, password1 }, with no invite
InitCreateInvite ==
    /\ now = 0
    /\ users = {[id |-> 1, email |-> "e1", roleId |-> 1, isActive |-> TRUE, isDeleted |-> FALSE]}
    /\ creds = {registerCredentialRow(1, 1, "a", "password1")}
    /\ userSeq = 1 /\ credSeq = 1
    /\ tokens = {}
    /\ rolePerms = [r \in RoleIds |-> {}]
    /\ jwtExpiresIn = ExpiresIn
    /\ invites = {}
    /\ certificates = {}
    /\ req = [p \in Procs |-> IdleReq]
    /\ nreq = MaxCreateInviteRequests

CreateInvite(p) ==
    \/ \E t \in tokens \cup {NoToken}, e \in Emails : StartCreateInvite(p, t, e)
    \/ CiGuardLookup(p)
    \/ CiFindUser(p)
    \/ CiSvcFindUser(p)
    \/ CiFindInvite(p)
    \/ CiCreate(p)

\* login and the creation of invites, run concurrently
NextCreateInvite ==
    \E p \in Procs :
       \/ \E l \in LoginNames, pw \in RegisterPasswords : PostLogin(p, l, pw)
       \/ CreateInvite(p)

SpecCreateInvite == InitCreateInvite /\ [][NextCreateInvite]_vars

\* the store after POST /register { e1, a, password1 }, POST /register
\* { e2, b, password1, roleId 2 } and POST /api/certificates { title t1 } by
\* user 1
InitCertificate ==
    /\ now = 0
    /\ users = {[id |-> 1, email |-> "e1", roleId |-> 1, isActive |-> TRUE, isDeleted |-> FALSE],
                [id |-> 2, email |-> "e2", roleId |-> 2, isActive |-> TRUE, isDeleted |-> FALSE]}
    /\ creds = {registerCredentialRow(1, 1, "a", "password1"),
                registerCredentialRow(2, 2, "b", "password1")}
    /\ userSeq = 2 /\ credSeq = 2
    /\ tokens = {}
    /\ rolePerms = [r \in RoleIds |-> {}]
    /\ jwtExpiresIn = ExpiresIn
    /\ invites = {}
    /\ certificates = {[id |-> 1, userId |-> 1, title |-> "t1", isDeleted |-> FALSE]}
    /\ req = [p \in Procs |-> IdleReq]
    /\ nreq = MaxCertificateRequests

Certificate(p) ==
    \/ \E t \in tokens \cup {NoToken}, e \in CertificateGuardedEndpoints :
          StartCertificateRequest(p, t, e, 1, Null)
    \/ \E t \in tokens \cup {NoToken}, title \in Titles \cup {Null} :
          StartCertificateRequest(p, t, "PUT /api/certificates/:id", 1, title)
    \/ \E t \in tokens \cup {NoToken} :
          StartCertificateRequest(p, t, "DELETE /api/certificates/:id", 1, Null)
    \/ CertGuardLookup(p)
    \/ CertGet(p)
    \/ CertFind(p)
    \/ CertUpdate(p)

\* login and the certificates router, run concurrently
NextCertificate ==
    \E p \in Procs :
       \/ \E l \in LoginNames : PostLogin(p, l, "password1")
       \/ Certificate(p)

SpecCertificate == InitCertificate /\ [][NextCertificate]_vars

\* ============================================================= claims
\* ------------------------------------------------------------- credential store

\* C1: under any interleaving of concurrent DELETE /credentials/:id requests,
\* a user who had an active credential before them still has one once no
\* delete is in flight.
C1_LastCredentialSurvivesConcurrentDeletes ==
    (\A p \in Procs : req[p].op = "delete" => ~InFlight(p))
        => \A c \in creds : ActiveCredentials(c.userId) # {}

\* C6: of two registrations with the same, so far unused, loginName (and
\* different emails) that run concurrently, one answers 201 and the other 409,
\* and one password credential with that loginName exists.
C6_ConcurrentRegistrationOne201Other409 ==
    \A p, q \in Procs :
        (/\ p # q
         /\ req[p].op = "register" /\ req[q].op = "register"
         /\ req[p].pc = "done" /\ req[q].pc = "done"
         /\ req[p].loginName = req[q].loginName
         /\ req[p].email # req[q].email
         /\ q \in req[p].conc
         /\ ~req[p].dup /\ ~req[q].dup)
        => /\ {req[p].status, req[q].status} = {201, 409}
           /\ Cardinality({c \in creds : /\ c.loginName = req[p].loginName
                                         /\ c.authType = "password"}) = 1

\* C7: a registration whose loginName already has a password credential
\* answers 409, and no User row and no Credential row of it is in the store.
C7_DuplicateLoginNameAnswers409 ==
    \A p \in Procs :
        (req[p].op = "register" /\ req[p].pc = "done" /\ req[p].dup)
        => /\ req[p].status = 409
           /\ ~\E u \in users : u.id = req[p].newUser
           /\ ~\E c \in creds : c.id = req[p].cred

\* C8: every credential, committed or written in an open transaction, has
\* with authType password a password hash and no OpenID provider, and with
\* authType openid an OpenID provider and no password hash.
C8_CredentialKindsExclusive ==
    \A c \in creds \cup UNION {req[p].txCreds : p \in Procs} :
        /\ c.authType \in {"password", "openid"}
        /\ c.authType = "password" => ~Falsy(c.passwordHash) /\ c.openIdProvider = Null
        /\ c.authType = "openid" => ~Falsy(c.openIdProvider) /\ c.passwordHash = Null

\* C8 witness: a user holds an OpenID credential and a password credential
\* whose password has been rotated.
C8_Witness ==
    \E c, d \in creds :
        /\ c.userId = d.userId
        /\ c.authType = "openid"
        /\ d.authType = "password" /\ d.passwordHash = hashPassword("password2")

C2_GateOpensIffEveryCodeLoaded ==
    \A p \in Procs :
        (/\ req[p].op = "request" /\ req[p].authorized
         /\ "loginName" \in req[p].token.claims
         /\ req[p].endpoint \in GuardedEndpoints
         /\ req[p].pc \in {"handler", "done"}) =>
            IF RequiredPermissions(req[p].endpoint) \subseteq req[p].permissions
            THEN req[p].pc = "handler" \/ req[p].handled
            ELSE req[p].pc = "done" /\ req[p].status = 403 /\ ~req[p].handled

\* C3: when the Auth Guard finds the live user of an unexpired session token on a
\* route gated by requirePermissions(P), the request is answered 403 as long
\* as P is not attached to the user's role, and goes on to its handler once P
\* has been attached through POST /api/roles/:id/permissions.
C3_AttachedPermissionOpensNextRequest ==
    [][\A p \in Procs, u \in users :
          (/\ req[p].pc = "guard_lookup"
           /\ req'[p].pc # "guard_lookup"
           /\ RequiredPermissions(req[p].endpoint) # {}
           /\ "loginName" \in req[p].token.claims
           /\ u.id = req[p].token.userId /\ u.isActive /\ ~u.isDeleted)
          => IF RequiredPermissions(req[p].endpoint) \subseteq rolePerms[u.roleId]
             THEN req'[p].pc = "handler"
             ELSE req'[p].pc = "done" /\ req'[p].status = 403
      ]_vars

\* C4: a request whose bearer token is a password-reset token (claims userId
\* and email only) is never authorized and its handler never runs, on any
\* route behind a token.
C4_ResetTokenIsNoSessionToken ==
    \A p \in Procs :
        (req[p].op = "request" /\ req[p].token.claims = {"userId", "email"})
        => ~req[p].authorized /\ ~req[p].handled /\ req[p].pc # "handler"

\* C5: a request that carries a session token of a user who was inactive or
\* deleted when it arrived is answered 403 and its handler does not run, on
\* every route behind a token.
C5_DeactivatedUserRejectedEverywhere ==
    \A p \in Procs :
        (/\ req[p].op = "request" /\ req[p].gone
         /\ req[p].token \in tokens /\ "loginName" \in req[p].token.claims)
        => /\ ~req[p].handled /\ req[p].pc # "handler"
           /\ req[p].pc = "done" => req[p].status = 403

\* C10: each step of the Auth Guard follows its state machine. On arrival: no
\* bearer token is answered 401 with no store query made; a token with a bad
\* signature or at or past its expiry (so every session token signed with an
\* expiry of 0) is answered 403; any other token goes on to the user lookup.
\* After the lookup: a missing, inactive or deleted user is answered 403;
\* otherwise the request is authorized with the live user record and the
\* codes attached to its role at that moment. A handler runs only for an
\* authorized request.
C10_AuthGuardStateMachine ==
    [][\A p \in Procs :
          LET r == req'[p]
              t == r.token
              live == {u \in users : u.id = req[p].token.userId /\ u.isActive /\ ~u.isDeleted}
          IN /\ (nreq' # nreq /\ ~InFlight(p) /\ (\A q \in Procs : q < p => InFlight(q))
                   /\ r.op = "request" /\ r.endpoint \in GuardedEndpoints)
                => /\ ~r.authorized /\ ~r.handled /\ r.queries = 0
                   /\ IF t = NoToken THEN r.pc = "done" /\ r.status = 401
                      ELSE IF ~t.signed \/ now >= t.exp THEN r.pc = "done" /\ r.status = 403
                      ELSE r.pc = "guard_lookup"
                   /\ (jwtExpiresIn = 0 /\ "loginName" \in t.claims)
                         => r.pc = "done" /\ r.status = 403
             /\ (req[p].pc = "guard_lookup" /\ r.pc # "guard_lookup")
                => IF live = {}
                   THEN r.pc = "done" /\ r.status = 403 /\ ~r.authorized /\ ~r.handled
                   ELSE /\ r.authorized
                        /\ \E u \in live : /\ r.userRecord.id = u.id
                                           /\ r.userRecord.roleId = u.roleId
                                           /\ r.permissions = rolePerms[u.roleId]
             /\ (r.op = "request" /\ r.endpoint \in GuardedEndpoints
                   /\ (r.handled \/ r.pc = "handler"))
                => r.authorized /\ r.userRecord # NoRecord
      ]_vars

\* C10 witness: a request with a session token has passed the Auth Guard with
\* the permission codes of its user's role attached, and its handler has run.
C10_Witness ==
    \E p \in Procs :
        /\ req[p].op = "request" /\ req[p].endpoint \in GuardedEndpoints
        /\ req[p].pc = "done" /\ req[p].handled /\ req[p].authorized
        /\ req[p].userRecord.id = req[p].token.userId
        /\ req[p].permissions = {"LIST_PROFILES"}

\* ------------------------------------------------------------- the Token Issuer
\* C12: every token issued by register, by the OpenID flow or by login (every
\* token but the reset tokens) carries exactly the claims userId, email,
\* loginName, authType, roleId and avatarId, the configured expiry, and the id
\* of a stored user.
C12_SessionTokensCarryFixedClaimSet ==
    \A t \in tokens :
        t.claims # {"userId", "email"}
        => /\ t.claims = {"userId", "email", "loginName", "authType", "roleId", "avatarId"}
           /\ t.signed /\ t.exp <= now + jwtExpiresIn
           /\ \E u \in users : u.id = t.userId

C15_OpenIdFlowIdempotent ==
    [][\A p \in Procs, c \in creds :
          (/\ req[p].op = "openid" /\ InFlight(p)
           /\ req'[p].pc = "done" /\ req'[p].alone
           /\ c.openIdProvider = req[p].provider /\ c.openIdSubject = req[p].subject)
          => /\ req'[p].status = 200
             /\ req'[p].cred = c.id
             /\ Cardinality(creds') = Cardinality(creds)
      ]_vars

\* ------------------------------------------------------------- login
\* C16: a login whose loginName is that of an active, not deleted, not expired
\* password credential of an active, not deleted user answers 200 and issues a
\* token with the userId of the credential's owner when the password matches
\* the stored hash, and answers 401 and issues no token when it does not.
C16_LoginChecksPassword ==
    [][\A p \in Procs, c \in creds :
          (/\ nreq' # nreq /\ ~InFlight(p) /\ (\A q \in Procs : q < p => InFlight(q))
           /\ req'[p].op = "login"
           /\ c.loginName = req'[p].loginName /\ c.authType = "password"
           /\ c.isActive /\ ~c.isDeleted /\ ~c.passwordExpired
           /\ \E u \in users : u.id = c.userId /\ u.isActive /\ ~u.isDeleted)
          => IF c.passwordHash = hashPassword(req'[p].password)
             THEN /\ req'[p].status = 200
                  /\ \E t \in tokens' : /\ t.userId = c.userId /\ t.signed
                                        /\ t.exp = now + jwtExpiresIn
                  /\ \A t \in tokens' \ tokens : t.userId = c.userId
             ELSE req'[p].status = 401 /\ tokens' = tokens
      ]_vars

\* C16 witness: after a change of password, a login with the new password has
\* been answered 200 and the token of the user is in issue.
C16_Witness ==
    \E p \in Procs :
        /\ req[p].op = "login" /\ req[p].status = 200 /\ req[p].password = "password2"
        /\ \E t \in tokens : t.userId = req[p].user

\* C17: every failed login with a loginName and a password is answered with
\* the same status and message, whether the loginName has no active password
\* credential, the password does not match, or the password is expired.
C17_FailedLoginsIndistinguishable ==
    \A p \in Procs :
        (req[p].op = "login" /\ req[p].pc = "done" /\ req[p].status # 200)
        => req[p].status = 401 /\ req[p].message = MsgInvalidLogin

\* C18: change-password with a current password that does not match the
\* stored hash answers 400, never 401, and leaves the credentials unchanged.
C18_WrongCurrentPasswordAnswers400 ==
    [][\A p \in Procs : \A c \in PasswordCredentials(req[p].token.userId) :
          (/\ req[p].pc = "cp_find" /\ req'[p].pc # "cp_find"
           /\ c.passwordHash # hashPassword(req[p].password))
          => /\ req'[p].pc = "done" /\ req'[p].status = 400
             /\ creds' = creds
      ]_vars

\* C18 witness: a change-password with a wrong current password has been
\* answered 400 and the credential still has the hash of the old password.
C18_Witness ==
    \E p \in Procs :
        /\ req[p].op = "change-password" /\ req[p].pc = "done" /\ req[p].status = 400
        /\ req[p].password = "password2" /\ req[p].newPassword = "password2"
        /\ \E c \in creds : c.id = req[p].cred /\ c.passwordHash = hashPassword("password1")

\* ------------------------------------------------------------- password reset
\* C20: a reset token authorizes one password change: a reset-password-confirm
\* that arrives with the token of the reset-password-confirm answered 200 just
\* before it is rejected at once and no password is changed.
C20_ResetTokenSingleUse ==
    [][\A p \in Procs :
          (/\ req[p].op = "reset-confirm" /\ req[p].pc = "done" /\ req[p].status = 200
           /\ nreq' # nreq
           /\ req'[p].op = "reset-confirm" /\ req'[p].token = req[p].token
           /\ ~Falsy(req'[p].newPassword) /\ Len(req'[p].newPassword) >= MinPasswordLength)
          => /\ req'[p].pc = "done" /\ req'[p].status \in {400, 401, 403, 404}
             /\ creds' = creds
      ]_vars

\* ------------------------------------------------------------- ownerGuard
\* C11: a request to an owner-guarded profile of another user, made with a
\* token issued while its user had role 1 and answered after the Auth Guard
\* has read the user's changed role from the store, is answered 403.
C11_OwnerBypassUsesLiveRole ==
    \A p \in Procs :
        (/\ req[p].op = "profile" /\ req[p].pc = "done" /\ req[p].err = Null
         /\ req[p].token.roleId = 1
         /\ req[p].authorized /\ req[p].userRecord.roleId # 1
         /\ req[p].user # 0 /\ req[p].user # req[p].token.userId)
        => req[p].status = 403

\* C19: when getResourceOwnerId has resolved the owner, ownerGuard lets the
\* request through if and only if the userId of the token equals the owner id
\* or the roleId of the token is 1, and otherwise answers 403, also when no
\* resource was found; when getResourceOwnerId throws, the answer is 500 and
\* the handler does not run.
C19_OwnerGuardDecision ==
    [][\A p \in Procs :
          (req[p].pc = "own_resolve" /\ req'[p].pc # "own_resolve")
          => LET ownerId == IF \E u \in users : u.email = req[p].email /\ ~u.isDeleted
                            THEN (CHOOSE u \in users : u.email = req[p].email /\ ~u.isDeleted).id
                            ELSE 0
             IN IF req'[p].err = ErrResolver
                THEN req'[p].pc = "done" /\ req'[p].status = 500 /\ ~req'[p].handled
                ELSE IF req[p].token.userId = ownerId \/ req[p].token.roleId = 1
                THEN req'[p].pc = "own_handler"
                ELSE req'[p].pc = "done" /\ req'[p].status = 403 /\ ~req'[p].handled
      ]_vars

\* C19 witness: ownerGuard has answered 403 to a user of another role asking
\* for the profile of another user, and has let a token of role 1 through to
\* the profile of another user.
C19_Witness ==
    \E p, q \in Procs :
        /\ req[p].op = "profile" /\ req[p].pc = "done" /\ req[p].status = 403
        /\ ~req[p].handled /\ req[p].user # 0 /\ req[p].token.roleId = 2
        /\ req[q].op = "profile" /\ req[q].handled /\ req[q].token.roleId = 1
        /\ req[q].user # 0 /\ req[q].user # req[q].token.userId

\* ------------------------------------------------------------- invites
\* C14: an acceptance of an invite that has been answered 201 has left its
\* user and its credential in the store and the invite inactive; one that has
\* failed after it found the invite has left no user and no credential it
\* created in the store, and the invite active.
C14_AcceptInviteAtomic ==
    \A p \in Procs :
        (req[p].op = "accept" /\ req[p].pc = "done" /\ req[p].invite # 0)
        => IF req[p].status = 201
           THEN /\ \E u \in users : u.id = req[p].newUser /\ u.email = req[p].email
                /\ \E c \in creds : c.id = req[p].cred /\ c.userId = req[p].newUser
                /\ \E i \in invites : i.id = req[p].invite /\ ~i.isActive
           ELSE /\ ~\E u \in users : u.id = req[p].newUser
                /\ ~\E c \in creds : c.id = req[p].cred
                /\ \E i \in invites : i.id = req[p].invite /\ i.isActive

\* ------------------------------------------------------------- the email collaborator
\* C21: a reset-password-request with an email is answered with success (200)
\* whether or not the email could be sent.
C21_EmailFailureNotFatal ==
    \A p \in Procs :
        (req[p].op = "reset-request" /\ req[p].pc = "done" /\ ~Falsy(req[p].email))
        => req[p].status = 200

\* ------------------------------------------------------------- password rotation
\* C22: a change-password or reset-password-confirm answered 200 leaves its
\* credential with the hash of the new password, the expired flag false and
\* the rotation timestamp of that moment, whatever the flag was before; and
\* the login that follows it, with no other rotation about and the password
\* not expired again, answers 200 with the new password and 401 with any other.
C22_RotationClearsExpiryAndSwitchesPassword ==
    [][\A p \in Procs :
          /\ (/\ req[p].pc \in {"cp_update", "rc_update"}
              /\ req'[p].pc = "done" /\ req'[p].status = 200)
             => \E c \in creds' :
                   /\ c.id = req[p].cred
                   /\ c.passwordHash = hashPassword(req[p].newPassword)
                   /\ ~c.passwordExpired
                   /\ c.lastPasswordChange = now
          /\ \A c \in creds :
                (/\ req[p].op \in {"change-password", "reset-confirm"}
                 /\ req[p].pc = "done" /\ req[p].status = 200 /\ req[p].cred = c.id
                 /\ \A q \in Procs \ {p} : req[q].op \notin {"change-password", "reset-confirm"}
                 /\ ~c.passwordExpired
                 /\ nreq' # nreq /\ req'[p].op = "login" /\ req'[p].loginName = c.loginName)
                => IF req'[p].password = req[p].newPassword
                   THEN req'[p].status = 200
                   ELSE req'[p].status = 401
      ]_vars

\* C22 witness: a login was refused because the password was expired while a
\* reset-password-confirm was in flight; the confirm has been answered 200 and
\* the credential has the new hash and is not expired.
C22_Witness ==
    \E p, q \in Procs : \E c \in creds :
        /\ req[p].op = "reset-confirm" /\ req[p].pc = "done" /\ req[p].status = 200
        /\ req[p].cred = c.id
        /\ req[q].op = "login" /\ req[q].message = MsgPasswordExpired /\ req[q].cred = c.id
        /\ c.passwordHash = hashPassword("password2") /\ ~c.passwordExpired

\* ------------------------------------------------------------- register, existing email
\* C23: a register request answered 201 has inserted the user row its token
\* and its new credential name; it never answers 201 for a user row that was
\* in the store before the request.
C23_RegisterNeverReusesUser ==
    \A p \in Procs :
        (req[p].op = "register" /\ req[p].pc = "done" /\ req[p].status = 201)
        => req[p].newUser = req[p].user

\* ------------------------------------------------------------- reset-confirm, session token
\* C24: a reset-password-confirm given a session token (one that login signed,
\* with the loginName claim) as resetToken is rejected: it is never answered
\* 200 and never gets to the credential update.
C24_ResetConfirmRejectsSessionToken ==
    \A p \in Procs :
        (req[p].op = "reset-confirm" /\ "loginName" \in req[p].token.claims)
        => /\ req[p].pc # "rc_update"
           /\ req[p].pc = "done" => req[p].status # 200

C26_SelfRegisteredNoBypass ==
    \A p \in Procs :
        (/\ req[p].op = "profile" /\ req[p].pc = "done"
         /\ req[p].authorized /\ req[p].err = Null
         /\ req[p].token.userId > 1
         /\ req[p].user # 0 /\ req[p].user # req[p].token.userId)
        => req[p].status = 403

C28_OneActiveInvitePerEmail ==
    \A i, j \in ActiveInvites : i.email = j.email => i = j

\* ------------------------------------------------------------- an invite is accepted once
\* C29: an acceptInvite is answered 201 only for an invite that was active until
\* that step and is inactive from it on; an invite that is inactive stays
\* inactive; and an acceptInvite commits its user and its credential (the one
\* step of it that writes them to the store) only while its invite is active. So after one acceptance of an invite has succeeded, every
\* other one for it, started before or after, fails and creates nothing.
C29_InviteAcceptedOnce ==
    [][/\ \A i \in invites : ~i.isActive => \E j \in invites' : j.id = i.id /\ ~j.isActive
       /\ \A p \in Procs :
             (req[p].op = "accept" /\ InFlight(p))
             => /\ (req'[p].pc = "done" /\ req'[p].status = 201)
                   => /\ \E i \in ActiveInvites : i.id = req[p].invite /\ i.guid = req[p].guid
                      /\ \E j \in invites' : j.id = req[p].invite /\ ~j.isActive
                /\ (req[p].pc = "reg_commit" /\ req'[p].pc # "reg_commit")
                   => \E i \in ActiveInvites : i.id = req[p].invite /\ i.guid = req[p].guid
      ]_vars

\* C29 witness: one acceptInvite of the invite g1 has been answered 201 and the
\* invite is inactive; another one for g1, which had found the invite active,
\* has failed; the store holds the one user and the one credential created.
C29_Witness ==
    \E p, q \in Procs :
        /\ req[p].op = "accept" /\ req[p].pc = "done" /\ req[p].status = 201
        /\ req[q].op = "accept" /\ req[q].pc = "done" /\ req[q].status # 201
        /\ req[p].guid = req[q].guid /\ req[q].invite = req[p].invite /\ req[p].invite # 0
        /\ \E i \in invites : i.id = req[p].invite /\ ~i.isActive
        /\ Cardinality(users) = 2 /\ Cardinality(creds) = 2

\* ------------------------------------------------------------- certificates
\* C30: the row of a certificate changes only in a step of a request that the
\* Auth Guard let through with a token of the certificate's owner, and a GET
\* answers only rows of the token's user that are not deleted.
C30_CertificateOwnerOnly ==
    [][/\ \A c \in certificates :
             c \notin certificates'
             => \E p \in Procs :
                   /\ req[p].op = "certificate" /\ req[p].pc = "cert_update"
                   /\ req'[p].pc = "done"
                   /\ req[p].authorized /\ req[p].token.userId = c.userId
       /\ \A p \in Procs :
             (req[p].pc = "cert_get" /\ req'[p].pc = "done")
             => \A c \in req'[p].found : c.userId = req[p].token.userId /\ ~c.isDeleted
      ]_vars

====
